---- MODULE Spec2Model ----
(***************************************************************************)
(* A model of the Gainsight API toolkit scripts: company-lookup,           *)
(* contacts-lookup, timeline-viewer, csm-dashboard and the hello-world     *)
(* probe.  Strings are sequences of one-character strings, so that         *)
(* splitting, slicing and lower-casing are computed as Python computes     *)
(* them.  Python's None and a key that is absent from a dict are the       *)
(* one-element sequences NoneV and Missing, whose element is no character  *)
(* of the alphabet.                                                        *)
(***************************************************************************)
EXTENDS Integers, Sequences, FiniteSets, TLC

VARIABLES
    \* ---- one run of a script ----
    script,         \* which script runs
    argv,           \* what parser.parse_args() makes of the command line
    env_domain,     \* os.environ.get("GAINSIGHT_DOMAIN")
    env_key,        \* os.environ.get("GAINSIGHT_ACCESS_KEY")
    target,         \* company id or user email (argument or environment)
    pc,             \* position of the run
    exit_code,      \* {} while running, {c} once the process has exited with c
    out,            \* the banners printed so far
    calls,          \* the requests issued so far, in order
    outstanding,    \* number of requests awaiting their response
    last_reply,     \* the response to the most recent request
    store,          \* the remote company_person collection of the company
    contacts,       \* fetch_contacts_by_company_gsid: accumulated records
    offset,         \* fetch_contacts_by_company_gsid: offset cursor
    limit,          \* fetch_contacts_by_company_gsid: page size
    result,         \* the value the script's fetch function returned
    activities,     \* csm-dashboard: the timeline records
    company_gsids,  \* csm-dashboard: distinct company ids, first-seen order
    idx,            \* csm-dashboard: index of the company being processed
    company_info,   \* csm-dashboard: result of lookup_company_name
    all_results,    \* csm-dashboard: one entry per processed company
    \* ---- redact_email applied to a string ----
    email,          \* the input
    redacted,       \* redact_email(email)
    reredacted,     \* redact_email(redact_email(email))
    rpc,            \* how many times redact_email has been applied
    \* ---- the aggregator applied to a contact sequence ----
    agg_contacts,   \* the input contact records
    agg_counts,     \* extract_email_domains(agg_contacts)
    agg_primary,    \* the primary domain main derives from them
    apc,            \* position of the aggregation
    \* ---- a presenter applied to one activity ----
    presenter,      \* which presenter formats the activity
    subject,        \* the Subject stored in the activity
    shown,          \* what the presenter makes of it
    ppc             \* position of the presentation

run_vars == <<script, argv, env_domain, env_key, target, pc, exit_code, out,
              calls, outstanding, last_reply, store, contacts, offset, limit,
              result, activities, company_gsids, idx, company_info,
              all_results>>
redact_vars == <<email, redacted, reredacted, rpc>>
agg_vars == <<agg_contacts, agg_counts, agg_primary, apc>>
present_vars == <<presenter, subject, shown, ppc>>
vars == <<run_vars, redact_vars, agg_vars, present_vars>>

----------------------------------------------------------------------------
(* Bounds of the model *)

MaxLen == 4          \* longest input string of redact_email
MaxAggContacts == 3  \* longest contact sequence given to the aggregator
MaxRecords == 4      \* largest remote collection served to contacts-lookup
MaxLimit == 3        \* largest small page size tried besides the real one
MaxActivities == 2   \* most timeline records the remote returns
MaxContacts == 2     \* most contacts the remote returns for one company
MaxOver == 2         \* how far a subject may exceed the presenters' cut

----------------------------------------------------------------------------
(* Python values *)

NoneV == <<"None">>
Missing == <<"Missing">>
Unknown == <<"Unknown">>

Alphabet == {"a", "A", "@", "*"}

RECURSIVE StringsOfLen(_)
StringsOfLen(n) ==
    IF n = 0 THEN {<<>>}
    ELSE {Append(s, c) : s \in StringsOfLen(n - 1), c \in Alphabet}

Strings == UNION {StringsOfLen(n) : n \in 0..MaxLen}

Min(a, b) == IF a < b THEN a ELSE b

\* Python truthiness of a string or None: `not v`
Falsy(v) == v = NoneV \/ v = <<>>

\* `c in s`
Contains(s, c) == \E i \in 1..Len(s) : s[i] = c

\* s[:n]
Take(s, n) == SubSeq(s, 1, Min(n, Len(s)))

\* index of the first '@' of a string that holds one
FirstAt(s) ==
    CHOOSE i \in 1..Len(s) : s[i] = "@" /\ \A j \in 1..(i - 1) : s[j] # "@"

\* s.split('@', 1) of a string that holds an '@': <<head, rest>>
split_once(s) ==
    <<SubSeq(s, 1, FirstAt(s) - 1), SubSeq(s, FirstAt(s) + 1, Len(s))>>

\* s.split('@'): every piece between the '@' signs
RECURSIVE split_all(_)
split_all(s) ==
    IF ~Contains(s, "@") THEN <<s>>
    ELSE <<SubSeq(s, 1, FirstAt(s) - 1)>>
             \o split_all(SubSeq(s, FirstAt(s) + 1, Len(s)))

LowerChar(c) == IF c = "A" THEN "a" ELSE c

\* s.lower()
RECURSIVE lower(_)
lower(s) == IF s = <<>> THEN <<>> ELSE <<LowerChar(Head(s))>> \o lower(Tail(s))

\* d.get(key, default) on the value stored for the key
dict_get(v, default) == IF v = Missing THEN default ELSE v

----------------------------------------------------------------------------
(* redact_email *)

Stars == <<"*", "*", "*", "@">>

\* two characters of the local part kept
redact_email_two(e) ==
    IF Falsy(e) \/ ~Contains(e, "@") THEN e
    ELSE LET user == split_once(e)[1]
             domain == split_once(e)[2]
         IN IF user # <<>> THEN Take(user, 2) \o Stars \o domain
            ELSE Stars \o domain

\* the last character of the local part kept instead of the first
redact_email_last(e) ==
    IF Falsy(e) \/ ~Contains(e, "@") THEN e
    ELSE LET user == split_once(e)[1]
             domain == split_once(e)[2]
         IN IF user # <<>> THEN <<user[Len(user)]>> \o Stars \o domain
            ELSE Stars \o domain

\* the domain lower-cased on the way
redact_email_lower(e) ==
    IF Falsy(e) \/ ~Contains(e, "@") THEN e
    ELSE LET user == split_once(e)[1]
             domain == split_once(e)[2]
         IN IF user # <<>> THEN Take(user, 1) \o Stars \o lower(domain)
            ELSE Stars \o lower(domain)

redact_email(e) ==
    IF Falsy(e) \/ ~Contains(e, "@") THEN e
    ELSE LET user == split_once(e)[1]
             domain == split_once(e)[2]
         IN IF user # <<>> THEN Take(user, 1) \o Stars \o domain
            ELSE Stars \o domain

RedactInit ==
    /\ email \in Strings \cup {NoneV}
    /\ redacted = NoneV
    /\ reredacted = NoneV
    /\ rpc = 0

\* the presenter redacts an address once ...
Redact ==
    /\ rpc = 0
    /\ redacted' = redact_email(email)
    /\ rpc' = 1
    /\ UNCHANGED <<email, reredacted, run_vars, agg_vars, present_vars>>

\* ... and a caller may hand the redacted text to it again
RedactAgain ==
    /\ rpc = 1
    /\ reredacted' = redact_email(redacted)
    /\ rpc' = 2
    /\ UNCHANGED <<email, redacted, run_vars, agg_vars, present_vars>>

----------------------------------------------------------------------------
(* extract_email_domains and the primary domain *)

\* Counter: the keys in first-seen order, each with its count
counter_add(cnt, d) ==
    IF \E i \in 1..Len(cnt) : cnt[i].key = d
    THEN [i \in 1..Len(cnt) |->
            IF cnt[i].key = d THEN [key |-> d, count |-> cnt[i].count + 1]
            ELSE cnt[i]]
    ELSE Append(cnt, [key |-> d, count |-> 1])

RECURSIVE Counter(_)
Counter(domains) ==
    IF domains = <<>> THEN <<>>
    ELSE counter_add(Counter(SubSeq(domains, 1, Len(domains) - 1)),
                     domains[Len(domains)])

\* the domains list the loop of extract_email_domains builds
RECURSIVE domains_of(_)
domains_of(cs) ==
    IF cs = <<>> THEN <<>>
    ELSE LET e == dict_get(Head(cs).email, <<>>)
         IN IF ~Falsy(e) /\ Contains(e, "@")
            THEN <<lower(split_all(e)[2])>> \o domains_of(Tail(cs))
            ELSE domains_of(Tail(cs))

extract_email_domains(cs) ==
    IF domains_of(cs) # <<>> THEN Counter(domains_of(cs)) ELSE <<>>

\* the last of the items with the greatest count
RECURSIVE max_by_count_last(_)
max_by_count_last(items) ==
    IF Len(items) = 1 THEN items[1]
    ELSE LET best == max_by_count_last(SubSeq(items, 1, Len(items) - 1))
         IN IF items[Len(items)].count >= best.count
            THEN items[Len(items)] ELSE best

\* max(items, key=lambda x: x[1]): the first item no later item exceeds
RECURSIVE max_by_count(_)
max_by_count(items) ==
    IF Len(items) = 1 THEN items[1]
    ELSE LET best == max_by_count(SubSeq(items, 1, Len(items) - 1))
         IN IF items[Len(items)].count > best.count
            THEN items[Len(items)] ELSE best

\* the primary_domain main stores for a company with these contacts
primary_domain(cs) ==
    IF cs # <<>>
    THEN IF extract_email_domains(cs) # <<>>
         THEN max_by_count(extract_email_domains(cs)).key
         ELSE Unknown
    ELSE Unknown

\* addresses the remote may hold: absent, null, empty, without '@', with one
\* '@' (domains differing in case only, or differing), with two '@'
AggEmails ==
    { Missing, NoneV, <<>>, <<"a", "a">>,
      <<"a", "@", "a">>, <<"*", "@", "A">>, <<"a", "@", "*">>,
      <<"a", "@", "A", "@", "*">> }

RECURSIVE SeqsUpTo(_, _)
SeqsUpTo(S, n) ==
    IF n = 0 THEN {<<>>}
    ELSE SeqsUpTo(S, n - 1)
         \cup {Append(s, x) : s \in {t \in SeqsUpTo(S, n - 1) : Len(t) = n - 1},
                              x \in S}

AggInit ==
    /\ agg_contacts \in SeqsUpTo({[email |-> e] : e \in AggEmails}, MaxAggContacts)
    /\ agg_counts = <<>>
    /\ agg_primary = NoneV
    /\ apc = "contacts"

\* main, line 271: domain_counts = extract_email_domains(contacts)
ExtractDomains ==
    /\ apc = "contacts"
    /\ agg_counts' = extract_email_domains(agg_contacts)
    /\ apc' = "counted"
    /\ UNCHANGED <<agg_contacts, agg_primary, run_vars, redact_vars, present_vars>>

\* main, lines 269-292: the primary_domain of the company's entry
PickPrimary ==
    /\ apc = "counted"
    /\ agg_primary' = primary_domain(agg_contacts)
    /\ apc' = "picked"
    /\ UNCHANGED <<agg_contacts, agg_counts, run_vars, redact_vars, present_vars>>

----------------------------------------------------------------------------
(* One run of a script: configuration *)

Scripts == {"hello", "company", "contacts", "timeline", "dashboard"}

\* scripts that build an argparse parser and call parse_args() first
Parsing == Scripts \ {"hello"}

\* an environment variable or argument: unset, empty, or set
EnvValues == {NoneV, <<>>, <<"v">>}

\* the remote collection: records told apart by their Gsid, in a fixed order
Collection(m) == [i \in 1..m |-> [Gsid |-> i]]

NoRun ==
    /\ script = "none" /\ argv = "none" /\ env_domain = NoneV /\ env_key = NoneV
    /\ target = NoneV /\ pc = "none" /\ exit_code = {} /\ out = <<>>
    /\ calls = <<>> /\ outstanding = 0 /\ last_reply = "none" /\ store = <<>>
    /\ contacts = <<>> /\ offset = 0 /\ limit = 0 /\ result = [tag |-> "pending"]
    /\ activities = <<>> /\ company_gsids = <<>> /\ idx = 0
    /\ company_info = [tag |-> "None"] /\ all_results = <<>>

NoRedact == email = NoneV /\ redacted = NoneV /\ reredacted = NoneV /\ rpc = 0

NoAgg == agg_contacts = <<>> /\ agg_counts = <<>> /\ agg_primary = NoneV /\ apc = "none"

NoPresent ==
    presenter = "none" /\ subject = NoneV /\ shown = [tag |-> "pending"] /\ ppc = "none"

RunInit ==
    /\ script \in Scripts
    /\ argv \in (IF script \in Parsing THEN {"parsed", "usage_error", "help"}
                 ELSE {"parsed"})
    /\ env_domain \in EnvValues
    /\ env_key \in EnvValues
    /\ target \in (IF script \in Parsing THEN EnvValues ELSE {NoneV})
    /\ store \in (IF script = "contacts"
                  THEN {Collection(m) : m \in 0..MaxRecords} ELSE {<<>>})
    /\ pc = "start"
    /\ exit_code = {}
    /\ out = <<>>
    /\ calls = <<>>
    /\ outstanding = 0
    /\ last_reply = "none"
    /\ contacts = <<>>
    /\ offset = 0
    /\ limit = 0
    /\ result = [tag |-> "pending"]
    /\ activities = <<>>
    /\ company_gsids = <<>>
    /\ idx = 0
    /\ company_info = [tag |-> "None"]
    /\ all_results = <<>>

fetch_vars == <<store, contacts, offset, limit, result>>
dash_vars == <<activities, company_gsids, idx, company_info, all_results>>
\* what no step of a run changes: its configuration, and the variables of
\* the function harnesses
conf_vars == <<script, argv, env_domain, env_key, target, redact_vars, agg_vars,
               present_vars>>
net_vars == <<calls, outstanding, last_reply>>

\* parser.parse_args(): argparse prints usage and exits with status 2 on a
\* command line it rejects, and exits with status 0 after printing help
ParseArgs ==
    /\ pc = "start"
    /\ script \in Parsing
    /\ CASE argv = "parsed" ->
              pc' = "config" /\ UNCHANGED <<exit_code, out>>
         [] argv = "usage_error" ->
              pc' = "exited" /\ exit_code' = {2} /\ out' = Append(out, "usage")
         [] OTHER ->
              pc' = "exited" /\ exit_code' = {0} /\ out' = Append(out, "help")
    /\ UNCHANGED <<conf_vars, net_vars, fetch_vars, dash_vars>>

\* the check passing unless both are missing
missing_env_both(d, k) == Falsy(d) /\ Falsy(k)

\* `if not domain or not access_key`
missing_env(d, k) == Falsy(d) \/ Falsy(k)

\* main up to the header lines: the environment and target checks
CheckConfig ==
    /\ \/ pc = "config"
       \/ pc = "start" /\ script \notin Parsing
    /\ IF missing_env(env_domain, env_key)
       THEN pc' = "exited" /\ exit_code' = {1} /\ out' = Append(out, "missing_env")
       ELSE IF script \in Parsing /\ Falsy(target)
       THEN pc' = "exited" /\ exit_code' = {1} /\ out' = Append(out, "missing_target")
       ELSE pc' = "ready" /\ UNCHANGED exit_code /\ out' = Append(out, "header")
    /\ UNCHANGED <<conf_vars, net_vars, fetch_vars, dash_vars>>

----------------------------------------------------------------------------
(* The remote *)

\* what a POST can come to: a transport exception, a status other than 200,
\* or a 200 whose JSON body has result false, or result true with data being
\* a mapping holding records, a bare list, a mapping without records, or null
ReplyTags == {"exception", "404", "500", "result_false",
              "records", "list", "mapping", "null"}

\* the tags with which a reply carries records
Carries(tag) == tag \in {"records", "list"}

Request(coll, id, lim, off) ==
    [coll |-> coll, id |-> id, limit |-> lim, offset |-> off]

Send(req) ==
    /\ calls' = Append(calls, req)
    /\ outstanding' = outstanding + 1
    /\ UNCHANGED last_reply

Receive(tag) ==
    /\ outstanding' = outstanding - 1
    /\ last_reply' = tag
    /\ UNCHANGED calls

\* the process ends by returning from main
Finish(lines) == pc' = "done" /\ exit_code' = {0} /\ out' = out \o lines

\* an exception no handler catches leaves main: traceback, exit status 1
Crash == pc' = "crashed" /\ exit_code' = {1} /\ UNCHANGED out

----------------------------------------------------------------------------
(* gainsight-api-hello-world, company-lookup, timeline-viewer: one call *)

\* the records a reply to a timeline query may carry
ActivityIds == {NoneV, <<"1">>, <<"2">>}
ActivityPages == SeqsUpTo({[GsCompanyId |-> c] : c \in ActivityIds}, MaxActivities)

\* the records a reply to a Company query (limit 1) may carry
CompanyPages == {<<>>, <<[Name |-> <<"n">>]>>}

HelloRequest ==
    /\ pc = "ready" /\ script = "hello"
    /\ Send(Request("users", NoneV, 1, 0))
    /\ pc' = "await"
    /\ UNCHANGED <<conf_vars, exit_code, out, fetch_vars, dash_vars>>

\* the try block of main: status line, body, raise_for_status(), both
\* outcomes ending main
HelloReply ==
    /\ pc = "await" /\ script = "hello"
    /\ \E tag \in ReplyTags :
         /\ Receive(tag)
         /\ IF tag \in {"exception", "404", "500"}
            THEN Finish(<<"failed">>)
            ELSE Finish(<<"valid">>)
    /\ UNCHANGED <<conf_vars, fetch_vars, dash_vars>>

CompanyRequest ==
    /\ pc = "ready" /\ script = "company"
    /\ Send(Request("Company", target, 1, 0))
    /\ pc' = "await"
    /\ UNCHANGED <<conf_vars, exit_code, out, fetch_vars, dash_vars>>

\* lookup_company_by_id from the response on, then the rest of main with
\* format_company_data: data.get('data', {}).get('records', []) raises
\* AttributeError when data is a list or null, and nothing catches it
CompanyReply ==
    /\ pc = "await" /\ script = "company"
    /\ \E tag \in ReplyTags, recs \in CompanyPages :
         /\ Receive(tag)
         /\ IF tag \in {"exception", "404", "500"}
            THEN /\ result' = [tag |-> "None"]
                 /\ Finish(<<"failed", "readonly">>)
            ELSE /\ result' = [tag |-> "value",
                               value |-> IF Carries(tag) THEN recs ELSE <<>>]
                 /\ IF tag \in {"list", "null"}
                    THEN Crash
                    ELSE Finish(<<"completed", "readonly">>)
    /\ UNCHANGED <<conf_vars, store, contacts, offset, limit, dash_vars>>

TimelineRequest ==
    /\ pc = "ready" /\ script = "timeline"
    /\ Send(Request("activity_timeline", target, MaxActivities, 0))
    /\ pc' = "await"
    /\ UNCHANGED <<conf_vars, exit_code, out, fetch_vars, dash_vars>>

\* safe_timeline_query from the response on, then the rest of main with
\* format_timeline_data, which tells the shapes of data apart
TimelineReply ==
    /\ pc = "await" /\ script = "timeline"
    /\ \E tag \in ReplyTags, recs \in ActivityPages :
         /\ Receive(tag)
         /\ IF tag \in {"exception", "404", "500"}
            THEN /\ result' = [tag |-> "None"]
                 /\ Finish(<<"failed", "readonly">>)
            ELSE /\ result' = [tag |-> "value",
                               value |-> IF Carries(tag) THEN recs ELSE <<>>]
                 /\ Finish(<<"completed", "readonly">>)
    /\ UNCHANGED <<conf_vars, store, contacts, offset, limit, dash_vars>>

----------------------------------------------------------------------------
(* contacts-lookup: fetch_contacts_by_company_gsid and the rest of main *)

DefaultLimit == 1000

\* the page sizes tried: the script's own and small ones that make the
\* collection span several pages
Limits == (1..MaxLimit) \cup {DefaultLimit}

\* what a remote honouring limit and offset serves
Page(coll, off, lim) == SubSeq(coll, off + 1, Min(off + lim, Len(coll)))

\* the loop left on a full page too
short_page_or_full(records, lim) == Len(records) <= lim

\* line 91: the loop ends on a page shorter than the page size
short_page(records, lim) == Len(records) < lim

\* the cursor moved on by one record
next_offset_by_one(off, lim) == off + 1

\* the cursor moved on by two pages
next_offset_double(off, lim) == off + 2 * lim

\* line 94: the cursor moves on by one page
next_offset(off, lim) == off + lim

\* a failed call returning what has been accumulated
on_failure_partial(acc) == [tag |-> "value", value |-> acc]

\* lines 72, 77, 86, 98: a failed call makes the fetch return None, whatever
\* has been accumulated
on_failure(acc) == [tag |-> "None"]

\* lines 26-28
FetchInit ==
    /\ pc = "ready" /\ script = "contacts"
    /\ contacts' = <<>>
    /\ offset' = 0
    /\ limit' \in Limits
    /\ pc' = "loop"
    /\ UNCHANGED <<conf_vars, exit_code, out, net_vars, store, result, dash_vars>>

\* lines 31-68: the query of this iteration is posted
PageRequest ==
    /\ pc = "loop"
    /\ Send(Request("company_person", target, limit, offset))
    /\ pc' = "await_page"
    /\ UNCHANGED <<conf_vars, exit_code, out, fetch_vars, dash_vars>>

\* main leaving with status 1 when the fetch failed
ContactsTail_exit(res) ==
    IF res.tag # "None"
    THEN Finish(<<"results", "completed", "readonly">>)
    ELSE pc' = "exited" /\ exit_code' = {1} /\ out' = Append(out, "failed")

\* main, lines 160-176, given what the fetch returned
ContactsTail(res) ==
    IF res.tag # "None"
    THEN Finish(<<"results", "completed", "readonly">>)
    ELSE Finish(<<"failed", "readonly">>)

\* lines 70-98 on a response with the given records, and main's remainder
\* when the fetch returns
PageHandled(tag, records) ==
    IF tag \in {"exception", "404", "500", "result_false", "mapping", "null"}
    THEN /\ result' = on_failure(contacts)
         /\ ContactsTail(result')
         /\ UNCHANGED <<contacts, offset>>
    ELSE /\ contacts' = contacts \o records
         /\ IF short_page(records, limit)
            THEN /\ result' = [tag |-> "value", value |-> contacts']
                 /\ ContactsTail(result')
                 /\ UNCHANGED offset
            ELSE /\ offset' = next_offset(offset, limit)
                 /\ pc' = "loop"
                 /\ UNCHANGED <<result, exit_code, out>>

\* the response of a remote honouring limit and offset
PageReply ==
    /\ pc = "await_page"
    /\ \E tag \in ReplyTags :
         /\ Receive(tag)
         /\ PageHandled(tag, Page(store, offset, limit))
    /\ UNCHANGED <<conf_vars, store, limit, dash_vars>>

\* the pages a remote may serve that never returns more than limit records:
\* any number of the records from the offset on, up to the page size
CappedPages(coll, off, lim) ==
    {SubSeq(coll, off + 1, off + n) :
        n \in 0..Min(lim, IF Len(coll) > off THEN Len(coll) - off ELSE 0)}

\* the response of such a remote
PageReplyCapped ==
    /\ pc = "await_page"
    /\ \E tag \in ReplyTags, records \in CappedPages(store, offset, limit) :
         /\ Receive(tag)
         /\ PageHandled(tag, records)
    /\ UNCHANGED <<conf_vars, store, limit, dash_vars>>

----------------------------------------------------------------------------
(* csm-dashboard *)

ContactsLimit == 10

\* the addresses the remote holds for a company's contacts
DashEmails == {<<"a", "@", "a">>, <<"a", "@", "*">>}
ContactPages == SeqsUpTo({[email |-> e] : e \in DashEmails}, MaxContacts)

\* as unique_gsids, without the test "gsid not in company_gsids"
unique_gsids_dup(acts) ==
    LET kept == SelectSeq(acts, LAMBDA a : ~Falsy(a.GsCompanyId))
    IN [i \in 1..Len(kept) |-> kept[i].GsCompanyId]

\* main, lines 238-242: the distinct non-empty ids in first-seen order
RECURSIVE unique_gsids(_)
unique_gsids(acts) ==
    IF acts = <<>> THEN <<>>
    ELSE LET before == unique_gsids(SubSeq(acts, 1, Len(acts) - 1))
             gsid == acts[Len(acts)].GsCompanyId
         IN IF ~Falsy(gsid) /\ ~Contains(before, gsid)
            THEN Append(before, gsid) ELSE before

DashTimelineRequest ==
    /\ pc = "ready" /\ script = "dashboard"
    /\ Send(Request("activity_timeline", target, MaxActivities, 0))
    /\ pc' = "await_timeline"
    /\ UNCHANGED <<conf_vars, exit_code, out, fetch_vars, dash_vars>>

\* get_timeline_activities from the response on, then main's lines 230-248:
\* data.get('data', {}).get('records', []) raises AttributeError on a list
\* or null, which the except clause for RequestException does not catch
DashTimelineReply ==
    /\ pc = "await_timeline"
    /\ \E tag \in ReplyTags, recs \in ActivityPages :
         /\ Receive(tag)
         /\ IF tag \in {"list", "null"}
            THEN Crash /\ UNCHANGED <<result, dash_vars>>
            ELSE LET got == IF tag \in {"exception", "404", "500", "result_false"}
                            THEN [tag |-> "None"]
                            ELSE [tag |-> "value",
                                  value |-> IF tag = "records" THEN recs ELSE <<>>]
                 IN /\ result' = got
                    /\ IF got.tag = "None" \/ got.value = <<>>
                       THEN /\ pc' = "exited"
                            /\ exit_code' = {1}
                            /\ out' = Append(out, "failed")
                            /\ UNCHANGED dash_vars
                       ELSE /\ activities' = got.value
                            /\ company_gsids' = unique_gsids(got.value)
                            /\ all_results' = <<>>
                            /\ UNCHANGED company_info
                            /\ IF unique_gsids(got.value) = <<>>
                               THEN Finish(<<"completed", "readonly">>)
                                    /\ UNCHANGED idx
                               ELSE /\ idx' = 1
                                    /\ pc' = "company"
                                    /\ UNCHANGED <<exit_code, out>>
    /\ UNCHANGED <<conf_vars, store, contacts, offset, limit>>

\* main, line 255: lookup_company_name posts its query
LookupRequest ==
    /\ pc = "company"
    /\ Send(Request("Company", company_gsids[idx], 1, 0))
    /\ pc' = "await_lookup"
    /\ UNCHANGED <<conf_vars, exit_code, out, fetch_vars, dash_vars>>

\* lookup_company_name from the response on
LookupReply ==
    /\ pc = "await_lookup"
    /\ \E tag \in ReplyTags, recs \in CompanyPages :
         /\ Receive(tag)
         /\ IF tag \in {"list", "null"}
            THEN Crash /\ UNCHANGED company_info
            ELSE /\ company_info' = IF tag = "records" /\ recs # <<>>
                                    THEN [tag |-> "value", value |-> recs[1]]
                                    ELSE [tag |-> "None"]
                 /\ pc' = "contacts"
                 /\ UNCHANGED <<exit_code, out>>
    /\ UNCHANGED <<conf_vars, fetch_vars, activities, company_gsids, idx,
                   all_results>>

\* main, line 267: get_company_contacts posts its query
DashContactsRequest ==
    /\ pc = "contacts"
    /\ Send(Request("company_person", company_gsids[idx], ContactsLimit, 0))
    /\ pc' = "await_contacts"
    /\ UNCHANGED <<conf_vars, exit_code, out, fetch_vars, dash_vars>>

\* main, lines 257-263 and 269-292: the entry appended for the company
Entry(gsid, info, cs) ==
    [gsid |-> gsid,
     name |-> IF info.tag # "None" THEN info.value.Name ELSE Unknown,
     contacts |-> Take(cs, ContactsLimit),
     domain_counts |-> IF cs # <<>> THEN extract_email_domains(cs) ELSE <<>>,
     primary_domain |-> primary_domain(cs)]

\* get_company_contacts from the response on, the entry of the company, and
\* either the next company or the final report and the end of main
DashContactsReply ==
    /\ pc = "await_contacts"
    /\ \E tag \in ReplyTags, recs \in ContactPages :
         /\ Receive(tag)
         /\ IF tag \in {"list", "null"}
            THEN Crash /\ UNCHANGED <<idx, all_results>>
            ELSE LET cs == IF tag = "records" THEN recs ELSE <<>>
                 IN /\ all_results' =
                          Append(all_results,
                                 Entry(company_gsids[idx], company_info, cs))
                    /\ IF idx = Len(company_gsids)
                       THEN Finish(<<"completed", "readonly">>) /\ UNCHANGED idx
                       ELSE /\ idx' = idx + 1
                            /\ pc' = "company"
                            /\ UNCHANGED <<exit_code, out>>
    /\ UNCHANGED <<conf_vars, fetch_vars, activities, company_gsids,
                   company_info>>

----------------------------------------------------------------------------
(* The presenters: the subject line of one activity *)

ViewerCut == 50
SummaryCut == 50

Ellipsis == <<".", ".", ".">>

\* the default both presenters pass to activity.get('Subject', ...)
NoSubject == <<"No subject">>

\* a subject of n characters that differ from place to place
SubjectOfLen(n, c) == [i \in 1..n |-> IF i % 3 = 0 THEN c ELSE "a"]

\* the Subject values an activity may hold: absent, null, or text
Subjects ==
    {Missing, NoneV}
      \cup {SubjectOfLen(n, c) : n \in 0..(ViewerCut + MaxOver), c \in {"A", "*"}}

\* a line of output, no line, or an exception raised
Line(text) == [tag |-> "line", text |-> text]
NoLine == [tag |-> "none"]
Raised == [tag |-> "raised"]

\* format_timeline_data, lines 94-96 and 101-102
viewer_subject(v) ==
    LET got == dict_get(v, NoSubject)
        cut == IF ~Falsy(got) /\ Len(got) > ViewerCut
               THEN Take(got, ViewerCut) \o Ellipsis ELSE got
    IN IF ~Falsy(cut) /\ cut # NoSubject THEN Line(cut) ELSE NoLine

\* format_timeline_summary, lines 189-195: None[:50] raises TypeError
summary_subject(v) ==
    LET got == dict_get(v, NoSubject)
    IN IF got = NoneV THEN Raised
       ELSE LET cut == Take(got, SummaryCut)
            IN IF cut # <<>> /\ Len(cut) = SummaryCut
               THEN Line(cut \o Ellipsis) ELSE Line(cut)

PresentInit ==
    /\ presenter \in {"viewer", "summary"}
    /\ subject \in Subjects
    /\ shown = [tag |-> "pending"]
    /\ ppc = "activity"

\* timeline-viewer: format_timeline_data reaches the activity
ViewerFormat ==
    /\ ppc = "activity" /\ presenter = "viewer"
    /\ shown' = viewer_subject(subject)
    /\ ppc' = "formatted"
    /\ UNCHANGED <<presenter, subject, run_vars, redact_vars, agg_vars>>

\* csm-dashboard: format_timeline_summary reaches the activity
SummaryFormat ==
    /\ ppc = "activity" /\ presenter = "summary"
    /\ shown' = summary_subject(subject)
    /\ ppc' = "formatted"
    /\ UNCHANGED <<presenter, subject, run_vars, redact_vars, agg_vars>>

----------------------------------------------------------------------------
(* Specifications *)

Init == RunInit /\ NoRedact /\ NoAgg /\ NoPresent

Next ==
    \/ ParseArgs
    \/ CheckConfig
    \/ HelloRequest
    \/ HelloReply
    \/ CompanyRequest
    \/ CompanyReply
    \/ TimelineRequest
    \/ TimelineReply
    \/ FetchInit
    \/ PageRequest
    \/ PageReply
    \/ DashTimelineRequest
    \/ DashTimelineReply
    \/ LookupRequest
    \/ LookupReply
    \/ DashContactsRequest
    \/ DashContactsReply

Spec == Init /\ [][Next]_vars

RedactNext ==
    \/ Redact
    \/ RedactAgain

RedactSpecInit == RedactInit /\ NoRun /\ NoAgg /\ NoPresent

RedactSpec == RedactSpecInit /\ [][RedactNext]_vars

AggNext ==
    \/ ExtractDomains
    \/ PickPrimary

AggSpecInit == AggInit /\ NoRun /\ NoRedact /\ NoPresent

AggSpec == AggSpecInit /\ [][AggNext]_vars

PresentNext ==
    \/ ViewerFormat
    \/ SummaryFormat

PresentSpecInit == PresentInit /\ NoRun /\ NoRedact /\ NoAgg

PresentSpec == PresentSpecInit /\ [][PresentNext]_vars

\* contacts-lookup against a remote that may cut its pages short; the
\* process is sequential and every call returns or raises within its
\* timeout, so a step that can be taken is taken
LoopInit == RunInit /\ script = "contacts" /\ NoRedact /\ NoAgg /\ NoPresent

LoopNext ==
    \/ ParseArgs
    \/ CheckConfig
    \/ FetchInit
    \/ PageRequest
    \/ PageReplyCapped

LoopSpec == LoopInit /\ [][LoopNext]_vars /\ WF_vars(LoopNext)

----------------------------------------------------------------------------
(* The paginated fetch of contacts-lookup *)

Terminated == pc \in {"done", "exited", "crashed"}

FailTags == {"exception", "404", "500", "result_false", "mapping", "null"}

CeilDiv(m, n) == (m + n - 1) \div n

\* the page the remote served in answer to the k-th request
Served(k) == Page(store, calls[k].offset, calls[k].limit)

\* C1: when every call succeeds against a remote serving M records by limit
\* and offset, the fetch makes ceil(M/N) calls, one more when N divides M
\* (so one call for M = 0), and returns the M records in their order.
C1_CallsAndRecords ==
    (script = "contacts" /\ pc = "done" /\ result.tag = "value") =>
        /\ Len(calls) = CeilDiv(Len(store), limit)
                          + (IF Len(store) % limit = 0 THEN 1 ELSE 0)
        /\ result.value = store
        /\ exit_code = {0}

\* a fetch over several pages whose last page is empty because the page size
\* divides the record count
C1_Witness ==
    /\ script = "contacts" /\ pc = "done" /\ result.tag = "value"
    /\ Len(store) = 4 /\ limit = 2 /\ Len(calls) = 3

\* C2: the k-th request (from 0) carries offset k * limit, requests differ in
\* their offset only, and a request is issued only at the start of the fetch
\* or after a successful page that was not shorter than the page size.
C2_Requests ==
    /\ [](script = "contacts" =>
            \A k \in 1..Len(calls) :
               /\ calls[k].offset = (k - 1) * limit
               /\ calls[k].limit = limit
               /\ calls[k].coll = calls[1].coll
               /\ calls[k].id = calls[1].id)
    /\ [][(script = "contacts" /\ calls' # calls) =>
            /\ calls' = Append(calls, calls'[Len(calls')])
            /\ \/ calls = <<>>
               \/ /\ last_reply \notin FailTags
                  /\ Len(Served(Len(calls))) = limit]_vars

\* the third request of a fetch is in flight
C2_Witness ==
    /\ script = "contacts" /\ pc = "await_page" /\ Len(calls) = 3
    /\ calls[3].offset = 2 * limit

\* C3: a failed call, at whatever page, ends the fetch with None, which holds
\* none of the records of the earlier pages, and no request follows it.
C3_FailureAborts ==
    /\ [](script = "contacts" /\ last_reply \in FailTags =>
            /\ pc = "done"
            /\ result = [tag |-> "None"]
            /\ outstanding = 0)
    /\ [][(script = "contacts" /\ last_reply \in FailTags) =>
            calls' = calls]_vars

\* the call for a later page failed after records had been accumulated
C3_Witness ==
    /\ script = "contacts" /\ last_reply \in FailTags
    /\ Len(calls) >= 2 /\ Len(contacts) >= 2
    /\ result.tag = "None"

----------------------------------------------------------------------------
(* Runs as a whole: banners and exit codes *)

\* the command line parses and the domain, the key and the target are given
ValidConfig ==
    /\ script \in Parsing /\ argv = "parsed"
    /\ ~Falsy(env_domain) /\ ~Falsy(env_key) /\ ~Falsy(target)

\* the last line printed is the READ-ONLY banner
BannerLast == out # <<>> /\ out[Len(out)] = "readonly"

\* C4: a run of company-lookup, contacts-lookup, timeline-viewer or
\* csm-dashboard with a valid configuration ends, whatever the remote calls
\* come to, by returning from main with the READ-ONLY banner printed last.
C4_AlwaysBanner ==
    (ValidConfig /\ Terminated) =>
        pc = "done" /\ exit_code = {0} /\ BannerLast

\* the reply to the script's fetch (for csm-dashboard, the timeline fetch)
\* was HTTP 404
Fetch404 ==
    /\ script \in Parsing
    /\ last_reply = "404"
    /\ script = "dashboard" => Len(calls) = 1

C6_Exit1NoCall ==
    Falsy(env_domain) =>
        /\ calls = <<>>
        /\ Terminated => exit_code = {1}

\* C6 amended: without GAINSIGHT_DOMAIN no request is ever issued; the run
\* exits with code 1 when the command line parses (or the script parses
\* none), with code 2 when argparse rejects it, with code 0 on --help.
C6_NoCallExitCodes ==
    Falsy(env_domain) =>
        /\ calls = <<>> /\ outstanding = 0
        /\ pc \in {"start", "config", "exited"}
        /\ Terminated =>
             exit_code = (CASE argv = "parsed" -> {1}
                            [] argv = "usage_error" -> {2}
                            [] OTHER -> {0})

\* the domain alone is missing and the run has exited with code 1
C6_Witness ==
    /\ Falsy(env_domain) /\ ~Falsy(env_key) /\ ~Falsy(target)
    /\ argv = "parsed" /\ pc = "exited" /\ exit_code = {1}

----------------------------------------------------------------------------
(* redact_email *)

\* the text after the first '@' of a string that holds one
AfterAt(s) == SubSeq(s, FirstAt(s) + 1, Len(s))

\* the first character of the text before the first '@', if there is one
LocalInitial(s) == IF FirstAt(s) > 1 THEN <<s[1]>> ELSE <<>>

\* C7: redact_email returns a string that is empty or holds no '@' as it
\* is, and any other string as the first character of its local part, then
\* '***@', then the text after its first '@' as given.
C7_Redacted ==
    (rpc >= 1 /\ email # NoneV) =>
        redacted = IF email = <<>> \/ ~Contains(email, "@") THEN email
                   ELSE LocalInitial(email) \o <<"*", "*", "*", "@">>
                            \o AfterAt(email)

\* an address with a local part of two characters and a second '@' in its
\* domain has been redacted
C7_Witness ==
    /\ rpc >= 1 /\ Len(email) = 4 /\ Contains(email, "@")
    /\ FirstAt(email) = 3 /\ Contains(AfterAt(email), "@")
    /\ Len(redacted) = 6

\* C8: redacting again a redacted string without '@' returns it unchanged,
\* and the text after the first '@' of a redacted address is that of the
\* address, letter case included.
C8_DomainKept ==
    /\ (rpc = 2 /\ ~Contains(redacted, "@")) => reredacted = redacted
    /\ (rpc >= 1 /\ Contains(email, "@")) =>
           Contains(redacted, "@") /\ AfterAt(redacted) = AfterAt(email)

\* an address with an upper-case letter in its domain has been redacted
C8_Witness ==
    /\ rpc = 2 /\ Contains(email, "@")
    /\ Contains(AfterAt(email), "A")
    /\ AfterAt(redacted) = AfterAt(email)

----------------------------------------------------------------------------
(* The aggregator *)

HasAt(c) == c.email # Missing /\ c.email # NoneV /\ Contains(c.email, "@")

\* the text after the '@' of a contact's address, lower-cased
DomainAfterAt(c) == lower(AfterAt(c.email))

\* how many of the first n contacts have D(c) = d, for D a domain rule
RECURSIVE CountOf(_, _, _, _)
CountOf(D(_), cs, n, d) ==
    IF n = 0 THEN 0
    ELSE CountOf(D, cs, n - 1, d)
           + (IF HasAt(cs[n]) /\ D(cs[n]) = d THEN 1 ELSE 0)

RECURSIVE SumCounts(_, _)
SumCounts(cnt, n) == IF n = 0 THEN 0 ELSE SumCounts(cnt, n - 1) + cnt[n].count

\* C9: each key of the mapping is the lower-cased text after the '@' of some
\* contact's address, its value counts the contacts whose address has that
\* text after the '@', contacts without '@' in an address count for nothing,
\* and the values add up to the number of contacts with an '@'.
C9_DomainCounts ==
    apc # "contacts" =>
        /\ \A i \in 1..Len(agg_counts) :
             /\ \E j \in 1..Len(agg_contacts) :
                   HasAt(agg_contacts[j])
                   /\ DomainAfterAt(agg_contacts[j]) = agg_counts[i].key
             /\ agg_counts[i].count =
                   CountOf(DomainAfterAt, agg_contacts, Len(agg_contacts),
                           agg_counts[i].key)
             /\ \A k \in 1..Len(agg_counts) :
                   agg_counts[k].key = agg_counts[i].key => k = i
        /\ \A j \in 1..Len(agg_contacts) :
             HasAt(agg_contacts[j]) =>
                \E i \in 1..Len(agg_counts) :
                   agg_counts[i].key = DomainAfterAt(agg_contacts[j])
        /\ SumCounts(agg_counts, Len(agg_counts))
             = Cardinality({j \in 1..Len(agg_contacts) : HasAt(agg_contacts[j])})

\* the domain extract_email_domains takes from a contact's address: the text
\* between its first '@' and its next '@' or its end, lower-cased
DomainPiece(c) == lower(split_all(c.email)[2])

\* the position of the first contact with the domain d
FirstSeen(d) ==
    CHOOSE j \in 1..Len(agg_contacts) :
        /\ HasAt(agg_contacts[j]) /\ DomainPiece(agg_contacts[j]) = d
        /\ \A h \in 1..(j - 1) :
              ~(HasAt(agg_contacts[h]) /\ DomainPiece(agg_contacts[h]) = d)

\* C10: the primary domain of a non-empty mapping is one of its keys with
\* the greatest count and, among those, the one whose first contact comes
\* first; the primary domain of an empty mapping is 'Unknown'.
C10_Primary ==
    apc = "picked" =>
        IF agg_counts = <<>> THEN agg_primary = Unknown
        ELSE \E i \in 1..Len(agg_counts) :
                /\ agg_counts[i].key = agg_primary
                /\ \A k \in 1..Len(agg_counts) :
                      /\ agg_counts[k].count <= agg_counts[i].count
                      /\ (k # i /\ agg_counts[k].count = agg_counts[i].count)
                            => FirstSeen(agg_primary) < FirstSeen(agg_counts[k].key)

\* two domains tie for the greatest count and the first seen is the primary
C10_Witness ==
    /\ apc = "picked" /\ Len(agg_counts) = 2
    /\ agg_counts[1].count = agg_counts[2].count
    /\ agg_primary = agg_counts[1].key
    /\ FirstSeen(agg_counts[1].key) < FirstSeen(agg_counts[2].key)

----------------------------------------------------------------------------
(* The presenters *)

\* the Subject is a text a presenter has to show
IsText(v) == v # Missing /\ v # NoneV /\ v # <<>> /\ v # NoSubject

\* C11: either presenter shows a subject longer than 50 characters as its
\* first 50 characters and an ellipsis, and a subject of 50 characters or
\* fewer as it is, without ellipsis.
C11_SubjectCut ==
    (ppc = "formatted" /\ IsText(subject)) =>
        shown = Line(IF Len(subject) > 50
                     THEN SubSeq(subject, 1, 50) \o <<".", ".", ".">>
                     ELSE subject)

----------------------------------------------------------------------------
(* The order of the dashboard's calls *)

\* the first place of the timeline records at which id g stands
FirstPlace(acts, g) ==
    CHOOSE i \in 1..Len(acts) :
        /\ acts[i].GsCompanyId = g
        /\ \A j \in 1..(i - 1) : acts[j].GsCompanyId # g

\* ids are the distinct non-empty GsCompanyId of acts, in first-seen order
IdsInOrder(acts, ids) ==
    /\ \A k \in 1..Len(ids) :
         /\ ~Falsy(ids[k])
         /\ \E i \in 1..Len(acts) : acts[i].GsCompanyId = ids[k]
    /\ \A i \in 1..Len(acts) :
         ~Falsy(acts[i].GsCompanyId) => Contains(ids, acts[i].GsCompanyId)
    /\ \A k, l \in 1..Len(ids) :
         k < l => /\ ids[k] # ids[l]
                  /\ FirstPlace(acts, ids[k]) < FirstPlace(acts, ids[l])

\* the calls so far: the timeline fetch, then for the k-th id its lookup at
\* place 2k and its contacts fetch at place 2k + 1; an entry of the results
\* only for a company whose contacts fetch has been answered, and at the end
\* of main all calls made and answered and one entry for each id
CallsInOrder ==
    /\ outstanding \in {0, 1}
    /\ IdsInOrder(activities, company_gsids)
    /\ Len(calls) <= 1 + 2 * Len(company_gsids)
    /\ \A n \in 1..Len(calls) :
         IF n = 1 THEN calls[n].coll = "activity_timeline"
         ELSE /\ calls[n].id = company_gsids[n \div 2]
              /\ calls[n].coll = IF n % 2 = 0 THEN "Company" ELSE "company_person"
    /\ 2 * Len(all_results) + 1 <= Len(calls) - outstanding \/ all_results = <<>>
    /\ \A k \in 1..Len(all_results) : all_results[k].gsid = company_gsids[k]
    /\ pc = "done" =>
         /\ outstanding = 0
         /\ Len(calls) = 1 + 2 * Len(company_gsids)
         /\ Len(all_results) = Len(company_gsids)

\* a call is issued only when every earlier call has been answered
CallAfterReply == calls' # calls => (outstanding = 0 /\ outstanding' = 1)

\* C12: the dashboard has at most one call outstanding; the timeline fetch
\* is answered before any per-company call; for each distinct non-empty
\* GsCompanyId of the timeline records, in first-seen order, one lookup is
\* issued and answered before one contacts fetch for the same id, and both
\* before any call for the next id; no call carries another id; and the
\* final results hold one entry per distinct id in that order.
C12_Sequential ==
    /\ [](script = "dashboard" => CallsInOrder)
    /\ [][script = "dashboard" => CallAfterReply]_vars

\* a finished dashboard run over two companies, the second id seen first
C12_Witness ==
    /\ script = "dashboard" /\ pc = "done"
    /\ activities = <<[GsCompanyId |-> <<"2">>], [GsCompanyId |-> <<"1">>]>>
    /\ Len(calls) = 5 /\ Len(all_results) = 2
    /\ all_results[1].gsid = <<"2">>

----------------------------------------------------------------------------
(* Redacting twice *)

\* the address has an '@' with nothing before it
EmptyLocal(s) == ~Falsy(s) /\ Contains(s, "@") /\ FirstAt(s) = 1

\* C13 as stated: redacting a redacted text changes nothing, whatever the
\* text, the texts with '@' and with an empty local part included.
C13_Idempotent == rpc = 2 => reredacted = redacted

\* C13: redacting a redacted text changes nothing unless the local part of
\* the address is empty; then the second pass puts one more star in front.
C13_IdempotentButEmptyLocal ==
    rpc = 2 =>
        IF EmptyLocal(email)
        THEN /\ redacted = <<"*", "*", "*", "@">> \o AfterAt(email)
             /\ reredacted = <<"*">> \o redacted
        ELSE reredacted = redacted

\* an address with both parts, changed by the first pass and kept by the second
C13_Witness ==
    /\ rpc = 2
    /\ ~Falsy(email) /\ Contains(email, "@") /\ ~EmptyLocal(email)
    /\ redacted # email
    /\ reredacted = redacted

----------------------------------------------------------------------------
(* The pagination loop *)

\* an iteration of the loop is about to start
AtLoopStart == script = "contacts" /\ pc = "loop"

\* C14: at the start of every iteration of the pagination loop the number of
\* records accumulated equals the offset and the offset is a multiple of the
\* page size, the remote never returning more than limit records in a page;
\* and the loop ends after finitely many calls once the remote returns a
\* short page or a failure.
C14_LoopInvariant ==
    /\ [](AtLoopStart => (Len(contacts) = offset /\ offset % limit = 0))
    /\ (AtLoopStart ~> (pc = "done" /\ result.tag # "pending"))

\* the third iteration about to start after two full pages of two records
C14_Witness ==
    /\ AtLoopStart
    /\ limit = 2 /\ offset = 4 /\ Len(contacts) = 4
    /\ Len(calls) = 2 /\ outstanding = 0

====
